---- MODULE Spec2Model ----
(***************************************************************************)
(* Caelus Python Library: the schema-backed dictionary files of            *)
(* caelus/io/dictfile.py, the version-string discovery of                  *)
(* caelus/version.py and the CML version registry of                       *)
(* caelus/config/cmlenv.py.                                                *)
(*                                                                         *)
(* SpecDict is the state machine of one dictionary-file object, SpecCwd    *)
(* that of the calls that change the working directory of the process,     *)
(* and SpecEnv that of the process-wide version registry.                  *)
(***************************************************************************)
EXTENDS Integers, Sequences, FiniteSets, TLC

VARIABLES
    cls,           \* class of the dictionary-file object ("NoObject": none yet)
    filename,      \* obj.filename
    header,        \* obj.header
    data,          \* obj.data (top-level entries of the CaelusDict)
    cwd,           \* os.getcwd() of the process
    version,       \* caelus.version.version
    ret,           \* what the last dictfile / version call did
    nsets,         \* generated-setter calls made on the current object
    nassign,       \* model / delta assignments made on the current object
    assigned,      \* the strings assigned to obj.model so far
    cml_versions,  \* closure variable cml_versions of _cml_env_mgr
    did_init,      \* closure variable did_init[0] of _cml_env_mgr
    cml_opts,      \* cfg.caelus.caelus_cml.versions
    cml_default,   \* cfg.caelus.caelus_cml.default
    disk,          \* directories that exist (os.path.exists)
    last,          \* what the last cml_get_* call did
    platform_fs,   \* paths that exist around the platforms directory
    cmlenv,        \* a CMLEnv object with its _build_dir
    access         \* what the last read of cmlenv.build_dir did

dictvars == <<cls, filename, header, data, cwd, version, ret, nsets, nassign,
             assigned>>
envvars  == <<cml_versions, did_init, cml_opts, cml_default, disk, last>>
buildvars == <<platform_fs, cmlenv, access>>
vars     == <<dictvars, envvars, buildvars>>

----------------------------------------------------------------------------
(* Bounds of the model                                                     *)

MaxSets   == 1     \* generated-setter calls per object
MaxAssign == 2     \* model / delta assignments per object
MaxCfg    == 2     \* length of the configured version list
MaxBuilds == 2     \* build directories present under platforms

----------------------------------------------------------------------------
(* Python values                                                           *)

PyStr(s)  == [t |-> "str", s |-> s]
PyInt(n)  == [t |-> "int", n |-> n]
PyBool(b) == [t |-> "bool", n |-> IF b THEN 1 ELSE 0]
PyNone    == [t |-> "none"]

\* caelusdict.CaelusDict(...): a mapping from keys to values
CaelusDict(f) == [t |-> "dict", d |-> f]

\* Python ==: strings by content, bool and int by number (True == 1)
PyEq(a, b) ==
    IF a.t = "str" /\ b.t = "str" THEN a.s = b.s
    ELSE IF a.t \in {"int", "bool"} /\ b.t \in {"int", "bool"} THEN a.n = b.n
    ELSE a = b

\* Python truth value
Truthy(v) ==
    CASE v.t = "str"  -> v.s # ""
      [] v.t = "int"  -> v.n # 0
      [] v.t = "bool" -> v.n # 0
      [] v.t = "dict" -> DOMAIN v.d # {}
      [] v.t = "none" -> FALSE

\* value in options, options a tuple
PyIn(value, options) ==
    \E i \in 1..Len(options) : PyEq(value, options[i])

\* d[key] = value
SetItem(d, key, value) ==
    [k \in (DOMAIN d) \cup {key} |-> IF k = key THEN value ELSE d[k]]

\* d.get(key, None)
GetItem(d, key) == IF key \in DOMAIN d THEN d[key] ELSE PyNone

\* d.pop(key, None): the mapping that is left
PopItem(d, key) == [k \in (DOMAIN d) \ {key} |-> d[k]]

Strs(seq) == [i \in 1..Len(seq) |-> PyStr(seq[i])]

----------------------------------------------------------------------------
(* Schemas: the _dict_properties lists.  opts = << >> is "no valid_values" *)

Prop(name, default, opts) == [name |-> name, default |-> default, opts |-> opts]

OnOff == <<PyStr("on"), PyStr("off"), PyStr("yes"), PyStr("no"), PyBool(TRUE), PyBool(FALSE)>>

ControlDictProps == <<
    Prop("application", PyStr("pisoSolver"), << >>),
    Prop("startFrom", PyStr("latestTime"),
         Strs(<<"firstTime", "startTime", "latestTime">>)),
    Prop("startTime", PyInt(0), << >>),
    Prop("stopAt", PyStr("endTime"),
         Strs(<<"endTime", "writeNow", "noWriteNow", "nextWrite">>)),
    Prop("endTime", PyNone, << >>),
    Prop("deltaT", PyNone, << >>),
    Prop("writeControl", PyStr("timeStep"),
         Strs(<<"timeStep", "runTime", "adjustableRunTime",
                "cpuTime", "clockTime">>)),
    Prop("writeInterval", PyNone, << >>),
    Prop("purgeWrite", PyInt(0), << >>),
    Prop("writeFormat", PyStr("ascii"), Strs(<<"ascii", "binary">>)),
    Prop("writePrecision", PyInt(6), << >>),
    Prop("writeCompression", PyBool(TRUE), << >>),
    Prop("timeFormat", PyStr("general"),
         Strs(<<"fixed", "scientific", "general">>)),
    Prop("timePrecision", PyInt(6), << >>),
    Prop("graphFormat", PyNone, << >>),
    Prop("adjustTimeStep", PyNone, << >>),
    Prop("maxCo", PyNone, << >>),
    Prop("runTimeModifiable", PyBool(TRUE), << >>) >>

DecomposeParDictProps == <<
    Prop("numberOfSubdomains", PyInt(4), << >>),
    Prop("method", PyStr("scotch"),
         Strs(<<"scotch", "metis", "simple", "hierarchical", "manual">>)) >>

TransportPropertiesProps == <<
    Prop("transportModel", PyStr("Newtonian"), << >>) >>

TurbulencePropertiesProps == <<
    Prop("simulationType", PyStr("laminar"),
         Strs(<<"laminar", "RASModel", "LESModel">>)) >>

TurbModelPropsProps == <<
    Prop("turbulence", PyStr("on"), OnOff),
    Prop("printCoeffs", PyStr("on"), OnOff) >>

Classes == {"DictFile", "ControlDict", "DecomposeParDict",
            "TransportProperties", "TurbulenceProperties",
            "RASProperties", "LESProperties"}

TurbClasses == {"RASProperties", "LESProperties"}

\* the _dict_properties the class was built from (inherited by subclasses)
dict_properties(c) ==
    CASE c = "ControlDict"          -> ControlDictProps
      [] c = "DecomposeParDict"     -> DecomposeParDictProps
      [] c = "TransportProperties"  -> TransportPropertiesProps
      [] c = "TurbulenceProperties" -> TurbulencePropertiesProps
      [] c \in TurbClasses          -> TurbModelPropsProps
      [] OTHER                      -> << >>

\* a path, split as os.path.dirname / os.path.basename split it
Path(dir, base) == [dir |-> dir, base |-> base]

default_filename(c) ==
    CASE c = "ControlDict"          -> Path("system", "controlDict")
      [] c = "DecomposeParDict"     -> Path("system", "decomposeParDict")
      [] c = "TransportProperties"  -> Path("constant", "transportProperties")
      [] c = "TurbulenceProperties" -> Path("constant", "turbulenceProperties")
      [] c = "RASProperties"        -> Path("constant", "RASProperties")
      [] c = "LESProperties"        -> Path("constant", "LESProperties")
      [] OTHER                      -> Path("", "dictionary")

\* TurbModelProps._model_name
model_name == "NONE"

\* DictFile._size_limit = 10 * (1 << 20)
size_limit == 10485760

----------------------------------------------------------------------------
(* Inputs of the dictionary-file operations                                *)

NoObject == "NoObject"

\* filename=None
NoFile == Path("", "")

FileArgs == {NoFile, Path("system", "fvSchemes")}

\* casedir=None
NoDir == ""

Dirs == {"/home/user", "/cases/cavity"}

\* os.path.dirname(__file__) of caelus/version.py
version_dirname == "/site-packages/caelus"

\* caelus.version._basic_version
basic_version == "v0.0.2"

\* what "git describe --tags --dirty" prints when it exits with 0
git_output == "v0.0.2-3-gabc123"

GitOutcomes == {"ok", "nonzero", "nostart"}

FoamFileBlock ==
    CaelusDict([version |-> PyStr("2.0"), format |-> PyStr("binary"),
                class |-> PyStr("dictionary"), object |-> PyStr("controlDict")])

\* the parser raising on the file text
ParseError == [error |-> "ParseError"]

\* a file as load sees it: os.path.exists, os.path.getsize, and what the
\* parser makes of its text
File(exists, size, parsed) == [exists |-> exists, size |-> size, parsed |-> parsed]

AFoamFile == [FoamFile |-> FoamFileBlock, application |-> PyStr("simpleSolver")]

\* what parser.CaelusParser().parse returns for the file texts considered
ParseResults == {
    AFoamFile,
    [application |-> PyStr("simpleSolver"), writeFormat |-> PyStr("binary")],
    [FoamFile |-> CaelusDict(<< >>), turbulence |-> PyStr("off")],
    [FoamFile |-> FoamFileBlock, NONE |-> PyStr("kEpsilon"),
     kEpsilonCoeffs |-> CaelusDict([Cmu |-> PyInt(1)])],
    << >> }

Files ==
    {File(FALSE, 0, << >>),
     File(TRUE, size_limit + 1, AFoamFile),
     File(TRUE, size_limit, AFoamFile),
     File(TRUE, 0, ParseError)}
    \cup {File(TRUE, 0, p) : p \in ParseResults}

SetterValues == {PyStr("ascii"), PyStr("on"), PyInt(1), PyStr("bogus")}

ModelValues == {PyStr("kOmegaSST"), PyStr("kEpsilon"), PyStr("cubeRootVol"),
                PyInt(1)}

DeltaValues == {PyStr("cubeRootVol"), PyStr("vanDriest")}

----------------------------------------------------------------------------
(* caelus/io/dictfile.py                                                   *)

Quoted(s) == "\"" \o s \o "\""

\* DictFile.create_header
create_header(fname) ==
    LET default_header == [version |-> PyStr("2.0"), format |-> PyStr("ascii"),
                           class |-> PyStr("dictionary")]
        located == IF fname.dir # ""
                   THEN SetItem(default_header, "location",
                                PyStr(Quoted(fname.dir)))
                   ELSE default_header
    IN  CaelusDict(SetItem(located, "object", PyStr(Quoted(fname.base))))

\* the create_default_entries that DictMeta.process_defaults generates,
\* from entry i of the property list on
RECURSIVE process_defaults(_, _, _)
process_defaults(d, proplist, i) ==
    IF i > Len(proplist) THEN d
    ELSE process_defaults(
            IF proplist[i].default # PyNone
            THEN SetItem(d, proplist[i].name, proplist[i].default)
            ELSE d,
            proplist, i + 1)

\* delta setter that pre-populates the block of every delta value
delta_setter_populating(d, value) ==
    LET d1  == SetItem(d, "delta", value)
        key == value.s \o "Coeffs"
    IN  IF key \notin DOMAIN d1
        THEN SetItem(d1, key, CaelusDict([deltaCoeff |-> PyInt(1)]))
        ELSE d1

\* LESProperties.delta setter; the value is a string
delta_setter(d, value) ==
    LET d1  == SetItem(d, "delta", value)
        key == value.s \o "Coeffs"
        coeffs == IF value.s = "cubeRootVol"
                  THEN [deltaCoeff |-> PyInt(1)] ELSE << >>
    IN  IF key \notin DOMAIN d1 THEN SetItem(d1, key, CaelusDict(coeffs))
        ELSE d1

\* TurbModelProps.coeffs getter, for what it does to data; model is a string
coeffs(d) ==
    LET key == d[model_name].s \o "Coeffs"
    IN  IF key \notin DOMAIN d THEN SetItem(d, key, CaelusDict(<< >>)) ELSE d

\* model setter that drops the block of the model it replaces
model_setter_pruning(d, value) ==
    LET old == GetItem(d, model_name)
        d0  == IF old.t = "str" THEN PopItem(d, old.s \o "Coeffs") ELSE d
        d1  == SetItem(d0, model_name, value)
        key == value.s \o "Coeffs"
    IN  IF key \notin DOMAIN d1 THEN SetItem(d1, key, CaelusDict(<< >>)) ELSE d1

\* TurbModelProps.model setter; the value is a string
model_setter(d, value) == coeffs(SetItem(d, model_name, value))

\* obj.create_default_entries() of class c
create_default_entries(c, d) ==
    IF c = "LESProperties"
    THEN delta_setter(process_defaults(d, dict_properties(c), 1),
                      PyStr("cubeRootVol"))
    ELSE process_defaults(d, dict_properties(c), 1)

\* the getter DictMeta.process_property generates
getter(d, name) == GetItem(d, name)

\* the property tuple of name in class c
PropOf(c, name) ==
    LET pl == dict_properties(c)
    IN  pl[CHOOSE i \in 1..Len(pl) : pl[i].name = name]

PropNames(c) == {dict_properties(c)[i].name : i \in 1..Len(dict_properties(c))}

\* setter without the check of the allowed values
setter_raises_never(c, name, value) == FALSE

\* the setter DictMeta.process_property generates raises ValueError
setter_raises(c, name, value) ==
    /\ PropOf(c, name).opts # << >>
    /\ ~PyIn(value, PropOf(c, name).opts)

\* load that reads FoamFile with get instead of pop
load_keeping_FoamFile(c, fname, file) ==
    LET name     == IF fname # NoFile THEN fname ELSE default_filename(c)
        oversize == file.size > size_limit
        entries  == IF oversize THEN << >> ELSE file.parsed
        hdr      == IF oversize THEN PyNone ELSE GetItem(file.parsed, "FoamFile")
    IN  IF ~file.exists THEN [exc |-> "IOError"]
        ELSE IF ~oversize /\ file.parsed = ParseError THEN [exc |-> "ParseError"]
        ELSE [exc |-> "none", filename |-> name,
              header |-> IF Truthy(hdr) THEN hdr
                         ELSE IF oversize THEN create_header(name)
                         ELSE PyNone,
              data |-> entries]

\* DictFile.load: the outcome, given what the file system and the parser do
load(c, fname, file) ==
    LET name     == IF fname # NoFile THEN fname ELSE default_filename(c)
        oversize == file.size > size_limit
        entries  == IF oversize THEN << >> ELSE PopItem(file.parsed, "FoamFile")
        hdr      == IF oversize THEN PyNone ELSE GetItem(file.parsed, "FoamFile")
        need_default_header == oversize
    IN  IF ~file.exists THEN [exc |-> "IOError"]
        ELSE IF ~oversize /\ file.parsed = ParseError THEN [exc |-> "ParseError"]
        ELSE [exc |-> "none", filename |-> name,
              header |-> IF Truthy(hdr) THEN hdr
                         ELSE IF need_default_header THEN create_header(name)
                         ELSE PyNone,
              data |-> entries]

----------------------------------------------------------------------------
(* The version registry is not touched by the dictionary-file operations   *)

\* no CMLEnv object is looked at
BuildIdle ==
    /\ platform_fs = {}
    /\ cmlenv = [made |-> FALSE]
    /\ access = [op |-> "none"]

EnvIdle ==
    /\ cml_versions = << >>
    /\ did_init = FALSE
    /\ cml_opts = << >>
    /\ cml_default = ""
    /\ disk = {}
    /\ last = [op |-> "none"]

----------------------------------------------------------------------------
(* Operations on a dictionary file                                         *)

InitDict ==
    /\ cls = NoObject
    /\ filename = NoFile
    /\ header = PyNone
    /\ data = << >>
    /\ cwd \in Dirs
    /\ version = ""
    /\ ret = [op |-> "none", exc |-> "none"]
    /\ nsets = 0
    /\ nassign = 0
    /\ assigned = {}
    /\ EnvIdle
    /\ BuildIdle

\* obj = c(filename, populate_defaults): DictFile.__init__; the model follows
\* one object from its creation
Construct(c, fname, populate_defaults) ==
    LET name == IF fname # NoFile THEN fname ELSE default_filename(c)
    IN  /\ cls = NoObject
        /\ cls' = c
        /\ filename' = name
        /\ header' = create_header(name)
        /\ data' = IF populate_defaults THEN create_default_entries(c, << >>)
                   ELSE << >>
        /\ ret' = [op |-> "init", exc |-> "none",
                   populate_defaults |-> populate_defaults]
        /\ nsets' = 0 /\ nassign' = 0 /\ assigned' = {}
        /\ UNCHANGED <<cwd, version, envvars, buildvars>>

\* obj = c.load(filename): DictFile.load
Load(c, fname, file) ==
    LET r == load(c, fname, file)
    IN  /\ cls = NoObject
        /\ ret' = [op |-> "load", exc |-> r.exc, file |-> file]
        /\ IF r.exc = "none"
           THEN /\ cls' = c
                /\ filename' = r.filename
                /\ header' = r.header
                /\ data' = r.data
                /\ nsets' = 0 /\ nassign' = 0 /\ assigned' = {}
           ELSE UNCHANGED <<cls, filename, header, data, nsets, nassign,
                            assigned>>
        /\ UNCHANGED <<cwd, version, envvars, buildvars>>

\* osutils.set_work_dir(cdir): the directory the body runs in
set_work_dir_enter(cdir) == cdir

\* osutils.set_work_dir(cdir): the directory the process is in once the
\* block is left, normally or by an exception
set_work_dir_exit(saved, inside) == saved

\* obj = c.read_if_present(casedir, filename): DictFile.read_if_present
ReadIfPresent(c, casedir, fname, file) ==
    LET cdir   == IF casedir # NoDir THEN casedir ELSE cwd
        name   == IF fname # NoFile THEN fname ELSE default_filename(c)
        inside == set_work_dir_enter(cdir)
        r      == IF file.exists THEN load(c, fname, file)
                  ELSE [exc |-> "none", filename |-> name,
                        header |-> create_header(name), data |-> << >>]
    IN  /\ ret' = [op |-> "read_if_present", exc |-> r.exc, before |-> cwd,
                   inside |-> inside, file |-> file]
        /\ cwd' = set_work_dir_exit(cwd, inside)
        /\ IF r.exc = "none"
           THEN /\ cls' = c
                /\ filename' = r.filename
                /\ header' = r.header
                /\ data' = r.data
                /\ nsets' = 0 /\ nassign' = 0 /\ assigned' = {}
           ELSE UNCHANGED <<cls, filename, header, data, nsets, nassign,
                            assigned>>
        /\ UNCHANGED <<version, envvars, buildvars>>

\* obj.<name> = value through the generated setter
Setter(name, value) ==
    /\ cls # NoObject
    /\ name \in PropNames(cls)
    /\ nsets < MaxSets
    /\ nsets' = nsets + 1
    /\ IF setter_raises(cls, name, value)
       THEN /\ ret' = [op |-> "setter", exc |-> "ValueError", name |-> name,
                       value |-> value, pre |-> data]
            /\ data' = data
       ELSE /\ ret' = [op |-> "setter", exc |-> "none", name |-> name,
                       value |-> value, pre |-> data]
            /\ data' = SetItem(data, name, value)
    /\ UNCHANGED <<cls, filename, header, cwd, version, nassign, assigned,
                   envvars, buildvars>>

\* obj.model = value: TurbModelProps.model setter
SetModel(value) ==
    /\ cls \in TurbClasses
    /\ nassign < MaxAssign
    /\ nassign' = nassign + 1
    /\ IF value.t = "str"
       THEN /\ data' = model_setter(data, value)
            /\ assigned' = assigned \cup {value.s}
            /\ ret' = [op |-> "model", exc |-> "none", value |-> value,
                       pre |-> data]
       ELSE \* data[_model_name] + "Coeffs" raises after the assignment
            /\ data' = SetItem(data, model_name, value)
            /\ assigned' = assigned
            /\ ret' = [op |-> "model", exc |-> "TypeError", value |-> value,
                       pre |-> data]
    /\ UNCHANGED <<cls, filename, header, cwd, version, nsets, envvars, buildvars>>

\* obj.delta = value: LESProperties.delta setter
SetDelta(value) ==
    /\ cls = "LESProperties"
    /\ nassign < MaxAssign
    /\ nassign' = nassign + 1
    /\ data' = delta_setter(data, value)
    /\ ret' = [op |-> "delta", exc |-> "none", value |-> value, pre |-> data]
    /\ UNCHANGED <<cls, filename, header, cwd, version, nsets, assigned,
                   envvars, buildvars>>

\* obj.create_default_entries() called again on a live object
CreateDefaultEntries ==
    /\ cls # NoObject
    /\ data' = create_default_entries(cls, data)
    /\ ret' = [op |-> "create_default_entries", exc |-> "none", pre |-> data]
    /\ UNCHANGED <<cls, filename, header, cwd, version, nsets, nassign,
                   assigned, envvars, buildvars>>

----------------------------------------------------------------------------
(* caelus/version.py                                                       *)

\* git_describe that restores the directory after the try block instead of
\* in a finally clause
git_describe_cwd_no_finally(before, outcome) ==
    IF outcome = "nostart" THEN version_dirname ELSE before

\* git_describe: the working directory when the call is left.  outcome:
\* "ok" the command exits with 0, "nonzero" it exits with another status,
\* "nostart" subprocess.Popen raises
git_describe_cwd(before, outcome) ==
    LET \* the os.chdir calls made, in order: the first in the try block,
        \* the last in the finally clause, which every outcome runs
        chdirs == <<version_dirname, before>>
    IN  chdirs[Len(chdirs)]

\* git_describe: the string returned
git_describe_ver(outcome) ==
    IF outcome = "ok" THEN git_output ELSE basic_version

\* version = git_describe()
GitDescribe(outcome) ==
    /\ cwd' = git_describe_cwd(cwd, outcome)
    /\ IF outcome = "nostart"
       THEN /\ ret' = [op |-> "git_describe", exc |-> "OSError",
                       before |-> cwd, outcome |-> outcome]
            /\ UNCHANGED version
       ELSE /\ ret' = [op |-> "git_describe", exc |-> "none",
                       before |-> cwd, outcome |-> outcome]
            /\ version' = git_describe_ver(outcome)
    /\ UNCHANGED <<cls, filename, header, data, nsets, nassign, assigned,
                   envvars, buildvars>>

NextDict ==
    \/ \E c \in Classes, f \in FileArgs, p \in BOOLEAN : Construct(c, f, p)
    \/ \E c \in Classes, f \in FileArgs, fl \in Files : Load(c, f, fl)
    \/ \E n \in PropNames(cls), v \in SetterValues : Setter(n, v)
    \/ \E v \in ModelValues : SetModel(v)
    \/ \E v \in DeltaValues : SetDelta(v)
    \/ CreateDefaultEntries

\* one dictionary-file object, from its creation on
SpecDict == InitDict /\ [][NextDict]_vars

NextCwd ==
    \/ \E c \in Classes, cd \in Dirs \cup {NoDir}, f \in FileArgs, fl \in Files :
            ReadIfPresent(c, cd, f, fl)
    \/ \E o \in GitOutcomes : GitDescribe(o)

\* the calls that change the working directory of the process
SpecCwd == InitDict /\ [][NextCwd]_vars

----------------------------------------------------------------------------
(* Strings of caelus/config/cmlenv.py, as sequences of characters          *)

Digits == <<"0", "1", "2", "3", "4", "5", "6", "7", "8", "9">>

IsDigit(ch) == \E i \in 1..10 : Digits[i] = ch

\* int(ch) of one digit
DigitVal(ch) == (CHOOSE i \in 1..10 : Digits[i] = ch) - 1

\* ord(ch) of the characters of a numeric dotted version
Ord(ch) == IF ch = "." THEN 46 ELSE 48 + DigitVal(ch)

\* int(run) of a run of digits
RECURSIVE int_of(_, _, _)
int_of(run, i, acc) ==
    IF i > Len(run) THEN acc ELSE int_of(run, i + 1, 10 * acc + DigitVal(run[i]))

\* str(n) of a natural number
RECURSIVE str_of(_)
str_of(n) ==
    IF n < 10 THEN <<Digits[n + 1]>>
    ELSE str_of(n \div 10) \o <<Digits[(n % 10) + 1]>>

\* s.startswith(prefix)
StartsWith(s, prefix) ==
    /\ Len(s) >= Len(prefix)
    /\ SubSeq(s, 1, Len(prefix)) = prefix

\* s.split("-")[-1]: the text after the last "-"
RECURSIVE last_segment(_, _)
last_segment(s, i) ==
    IF i = 0 THEN s
    ELSE IF s[i] = "-" THEN SubSeq(s, i + 1, Len(s))
    ELSE last_segment(s, i - 1)

Caelus_ == <<"c", "a", "e", "l", "u", "s", "-">>

V4_10  == <<"4", ".", "1", "0">>
V5_0   == <<"5", ".", "0">>
V42_0  == <<"4", "2", ".", "0">>
LatestId == <<"l", "a", "t", "e", "s", "t">>

\* version=None, and an absent "default"
NoVersion == << >>

----------------------------------------------------------------------------
(* distutils.version.LooseVersion, for versions of digits and dots         *)

\* LooseVersion.parse: the runs of digits as numbers, the dots dropped
RECURSIVE parse(_, _, _, _)
parse(vstring, i, run, components) ==
    LET closed == IF run = << >> THEN components
                  ELSE Append(components, int_of(run, 1, 0))
    IN  IF i > Len(vstring) THEN closed
        ELSE IF IsDigit(vstring[i])
             THEN parse(vstring, i + 1, Append(run, vstring[i]), components)
        ELSE parse(vstring, i + 1, << >>, closed)

\* a < b of two Python lists of numbers
RECURSIVE list_lt(_, _, _)
list_lt(a, b, i) ==
    IF i > Len(a) THEN i <= Len(b)
    ELSE IF i > Len(b) THEN FALSE
    ELSE IF a[i] = b[i] THEN list_lt(a, b, i + 1)
    ELSE a[i] < b[i]

\* a < b of two Python strings
RECURSIVE str_lt(_, _, _)
str_lt(a, b, i) ==
    IF i > Len(a) THEN i <= Len(b)
    ELSE IF i > Len(b) THEN FALSE
    ELSE IF a[i] = b[i] THEN str_lt(a, b, i + 1)
    ELSE Ord(a[i]) < Ord(b[i])

\* ordering of the keys as plain strings
version_lt_lexical(a, b) == str_lt(a, b, 1)

\* LooseVersion(a) < LooseVersion(b)
version_lt(a, b) == list_lt(parse(a, 1, << >>, << >>), parse(b, 1, << >>, << >>), 1)

\* sorted(vkeys, reverse=True)[0].vstring: a key no key is greater than;
\* which of several equal ones comes first follows the order of the dict
latest_keys(reg) ==
    {k \in DOMAIN reg : \A j \in DOMAIN reg : ~version_lt(k, j)}

----------------------------------------------------------------------------
(* Directories and configuration                                           *)

\* get_caelus_root()
caelus_root == "ROOT"

\* a directory: os.path.dirname and os.path.basename of its path
Dir(parent, base) == [parent |-> parent, base |-> base]

\* an entry without "path"
NoPath == Dir("", << >>)

OptCml == Dir("OPT", <<"c", "m", "l">>)

AllDirs == {
    Dir(caelus_root, Caelus_ \o V4_10),
    Dir(caelus_root, Caelus_ \o V5_0),
    Dir(caelus_root, Caelus_ \o <<"b", "-">> \o V5_0),
    Dir(caelus_root, Caelus_ \o V42_0),
    Dir(caelus_root, <<"n", "o", "t">> \o Caelus_ \o <<"1">>),
    OptCml }

\* CaelusCfg(version=..., path=...)
CaelusCfg(vid, path) == [version |-> vid, path |-> path]

\* the entries a configuration file may list; YAML reads 5 as a number
CfgEntries == {
    CaelusCfg([t |-> "str", s |-> V4_10], NoPath),
    CaelusCfg([t |-> "str", s |-> V42_0], NoPath),
    CaelusCfg(PyInt(5), OptCml),
    CaelusCfg(PyNone, OptCml) }

\* the lists of at most n entries
RECURSIVE CfgLists(_)
CfgLists(n) ==
    IF n = 0 THEN {<< >>}
    ELSE CfgLists(n - 1)
         \cup {Append(l, e) : l \in {x \in CfgLists(n - 1) : Len(x) = n - 1},
                              e \in CfgEntries}

Defaults == {NoVersion, LatestId, V4_10}

VersionArgs == {NoVersion, LatestId, V5_0, V42_0}

\* str(vid)
py_str(vid) == IF vid.t = "int" THEN str_of(vid.n) ELSE vid.s

\* os.path.join(get_caelus_root(), "caelus-%s" % vid)
default_dir(vstr) == Dir(caelus_root, Caelus_ \o vstr)

----------------------------------------------------------------------------
(* caelus/config/cmlenv.py                                                 *)

\* discover_versions(): one entry for each directory caelus-* of the root
discover_versions(exists) ==
    LET cdirs == {p \in exists : p.parent = caelus_root /\ StartsWith(p.base, Caelus_)}
    IN  {CaelusCfg(last_segment(cpath.base, Len(cpath.base)), cpath) : cpath \in cdirs}

\* ver.version = str(vid) of _filter_invalid_versions, on the whole list
coerced(cml_cfg) ==
    [i \in 1..Len(cml_cfg) |->
        IF cml_cfg[i].version = PyNone THEN cml_cfg[i]
        ELSE CaelusCfg([t |-> "str", s |-> py_str(cml_cfg[i].version)],
                       cml_cfg[i].path)]

\* _filter_invalid_versions, from entry i on: the entries it yields
RECURSIVE filter_invalid_versions(_, _, _)
filter_invalid_versions(cml_cfg, exists, i) ==
    IF i > Len(cml_cfg) THEN << >>
    ELSE LET ver  == cml_cfg[i]
             vid  == ver.version
             rest == filter_invalid_versions(cml_cfg, exists, i + 1)
         IN  IF vid = PyNone THEN rest
             ELSE LET pdir == IF ver.path # NoPath THEN ver.path
                              ELSE default_dir(py_str(vid))
                  IN  IF pdir \in exists
                      THEN <<CaelusCfg(py_str(vid), ver.path)>> \o rest
                      ELSE rest

\* CMLEnv(cfg)
CMLEnv(cfg) ==
    LET project_dir == IF cfg.path # NoPath THEN cfg.path
                       ELSE default_dir(cfg.version)
    IN  [version |-> cfg.version, project_dir |-> project_dir,
         root |-> project_dir.parent]

\* for cml in cmls: cml_versions[CMLEnv(cml).version] = CMLEnv(cml)
RECURSIVE register(_, _, _)
register(reg, cmls, i) ==
    IF i > Len(cmls) THEN reg
    ELSE register(
            [k \in (DOMAIN reg) \cup {cmls[i].version} |->
                IF k = cmls[i].version THEN CMLEnv(cmls[i]) ELSE reg[k]],
            cmls, i + 1)

\* the registries the loop over discover_versions() can leave: glob lists
\* the directories in no particular order, the last one of a version stays
register_discovered(reg, found) ==
    LET vs == {e.version : e \in found}
    IN  {[k \in (DOMAIN reg) \cup vs |->
            IF k \in vs THEN CMLEnv(pick[k]) ELSE reg[k]] :
         pick \in {f \in [vs -> found] : \A v \in vs : f[v].version = v}}

\* _init_cml_versions: the registries it can leave
init_cml_versions(reg, opts, exists) ==
    IF opts # << >>
    THEN {register(reg, filter_invalid_versions(opts, exists, 1), 1)}
    ELSE register_discovered(reg, discover_versions(exists))

\* guard that forgets to look at did_init
raises_no_versions_unconditionally(reg, di) == DOMAIN reg = {}

\* the guard of _get_latest_version and _get_version:
\* "if not cml_versions and did_init[0]: raise RuntimeError"
raises_no_versions(reg, di) == DOMAIN reg = {} /\ di

\* _get_latest_version(): its outcomes from registry reg
get_latest_version(reg, di, opts, exists) ==
    IF raises_no_versions(reg, di)
    THEN {[exc |-> "RuntimeError", reg |-> reg, did_init |-> di, inits |-> 0]}
    ELSE UNION {
            IF DOMAIN r = {}
            THEN \* vlist[0] of an empty list
                 {[exc |-> "IndexError", reg |-> r, did_init |-> TRUE, inits |-> 1]}
            ELSE {[exc |-> "none", reg |-> r, did_init |-> TRUE, inits |-> 1,
                   env |-> r[k]] : k \in latest_keys(r)}
            : r \in init_cml_versions(reg, opts, exists)}

\* _get_version(version): its outcomes from registry reg
get_version(ver, reg, di, opts, default, exists) ==
    IF raises_no_versions(reg, di)
    THEN {[exc |-> "RuntimeError", reg |-> reg, did_init |-> di, inits |-> 0]}
    ELSE UNION {
            LET vkey == IF ver # NoVersion THEN ver ELSE default
            IN  IF vkey = LatestId
                THEN {[o EXCEPT !.inits = o.inits + 1] :
                        o \in get_latest_version(r, TRUE, opts, exists)}
                ELSE IF vkey \notin DOMAIN r
                THEN {[exc |-> "KeyError", reg |-> r, did_init |-> TRUE, inits |-> 1]}
                ELSE {[exc |-> "none", reg |-> r, did_init |-> TRUE, inits |-> 1,
                       env |-> r[vkey]]}
            : r \in init_cml_versions(reg, opts, exists)}

----------------------------------------------------------------------------
(* Operations on the version registry                                      *)

DictIdle ==
    /\ cls = NoObject
    /\ filename = NoFile
    /\ header = PyNone
    /\ data = << >>
    /\ cwd = "/home/user"
    /\ version = basic_version
    /\ ret = [op |-> "none", exc |-> "none"]
    /\ nsets = 0
    /\ nassign = 0
    /\ assigned = {}

\* the process starts with an empty registry; the configuration file and
\* the installed directories are what they are
InitEnv ==
    /\ cml_versions = << >>
    /\ did_init = FALSE
    /\ cml_opts \in CfgLists(MaxCfg)
    /\ cml_default \in Defaults
    /\ disk \in SUBSET AllDirs
    /\ last = [op |-> "none"]
    /\ DictIdle
    /\ BuildIdle

\* no environment returned: the call raised
NoEnv == [version |-> << >>, project_dir |-> NoPath, root |-> ""]

\* what a call leaves behind; the entries of the configuration have had
\* their version coerced to a string when a population ran over them
Called(op, arg, o) ==
    /\ cml_versions' = o.reg
    /\ did_init' = o.did_init
    /\ cml_opts' = IF o.inits > 0 THEN coerced(cml_opts) ELSE cml_opts
    /\ last' = [op |-> op, arg |-> arg, exc |-> o.exc, inits |-> o.inits,
                env |-> IF o.exc = "none" THEN o.env ELSE NoEnv,
                empty_before |-> (DOMAIN cml_versions = {}),
                did_before |-> did_init,
                opts |-> cml_opts]
    /\ UNCHANGED <<cml_default, disk, dictvars, buildvars>>

\* cml_get_latest_version()
GetLatestVersion ==
    \E o \in get_latest_version(cml_versions, did_init, cml_opts, disk) :
        Called("cml_get_latest_version", NoVersion, o)

\* cml_get_version(version)
GetVersion(ver) ==
    \E o \in get_version(ver, cml_versions, did_init, cml_opts, cml_default, disk) :
        Called("cml_get_version", ver, o)

\* a version is installed or removed between two calls
ChangeDisk(d) ==
    /\ disk' = IF d \in disk THEN disk \ {d} ELSE disk \cup {d}
    /\ last' = [op |-> "none"]
    /\ UNCHANGED <<cml_versions, did_init, cml_opts, cml_default, dictvars, buildvars>>

NextEnv ==
    \/ GetLatestVersion
    \/ \E v \in VersionArgs : GetVersion(v)
    \/ \E d \in AllDirs : ChangeDisk(d)

\* the version registry of one process
SpecEnv == InitEnv /\ [][NextEnv]_vars

----------------------------------------------------------------------------
(* Build directory of a CMLEnv: caelus/config/cmlenv.py                    *)
(* A path is the tuple of its components; << >> is the empty string.       *)

\* os.uname()[0].lower() on the host
ostype == "linux"

arch_types == <<"64", "32">>
compilers  == <<"g++", "icpc", "clang++">>
prec_types == <<"DP", "SP">>
opt_types  == <<"Opt", "Prof", "Debug">>

\* len(list(itertools.product(arch_types, prec_types, opt_types, compilers)))
n_products ==
    Len(arch_types) * Len(prec_types) * Len(opt_types) * Len(compilers)

\* the loops nested in the order the name is formatted in: at, ct, pt, ot
product_in_name_order(i) ==
    LET n == i - 1
    IN  <<arch_types[(n \div (Len(compilers) * Len(prec_types) * Len(opt_types))) + 1],
          prec_types[((n \div Len(opt_types)) % Len(prec_types)) + 1],
          opt_types[(n % Len(opt_types)) + 1],
          compilers[((n \div (Len(prec_types) * Len(opt_types))) % Len(compilers)) + 1]>>

\* itertools.product(arch_types, prec_types, opt_types, compilers): its i-th
\* tuple <<at, pt, ot, ct>>; the rightmost list advances fastest
product(i) ==
    LET n == i - 1
    IN  <<arch_types[(n \div (Len(prec_types) * Len(opt_types) * Len(compilers))) + 1],
          prec_types[((n \div (Len(opt_types) * Len(compilers))) % Len(prec_types)) + 1],
          opt_types[((n \div Len(compilers)) % Len(opt_types)) + 1],
          compilers[(n % Len(compilers)) + 1]>>

\* "%s%s%s%s%s" % (ostype, at, ct, pt, ot)
bdir_name(os, at, pt, ot, ct) == os \o at \o ct \o pt \o ot

\* os.path.join(root_path, "platforms")
platforms_of(root_path) == <<root_path, "platforms">>

\* the for loop of _determine_platform_dir from the i-th tuple on; << >>
\* when it runs out (the function then returns None)
RECURSIVE probe(_, _, _)
probe(basepath, exists, i) ==
    IF i > n_products THEN << >>
    ELSE LET c == product(i)
             bdir_path == Append(basepath, bdir_name(ostype, c[1], c[2], c[3], c[4]))
         IN  IF bdir_path \in exists THEN bdir_path
             ELSE probe(basepath, exists, i + 1)

\* _determine_platform_dir(root_path); None is << >>
determine_platform_dir(root_path, exists) ==
    IF platforms_of(root_path) \notin exists THEN << >>
    ELSE probe(platforms_of(root_path), exists, 1)

\* cfg.get(key, default)
cfg_get(cfg, key, default) == IF key \in DOMAIN cfg THEN cfg[key] ELSE default

\* CMLEnv.__init__: the _build_dir it stores; "" for a false build_dir
init_build_dir(cfg, exists) ==
    LET build_dir == cfg_get(cfg, "platform_install",
                             determine_platform_dir(CMLEnv(cfg).project_dir, exists))
    IN  IF build_dir = << >> THEN << >> ELSE build_dir

\* CMLEnv.build_dir raises IOError
build_dir_raises(env, exists) ==
    env.build_dir = << >> \/ env.build_dir \notin exists

----------------------------------------------------------------------------
(* Inputs of the build-directory operations                                *)

\* a build directory configured outside the project
OptBuild == <<Dir("OPT", <<"b", "u", "i", "l", "d">>)>>

\* the entries a CMLEnv is made of: without platform_install, with one,
\* and with an empty one
BuildCfgs == {
    CaelusCfg(V5_0, NoPath),
    [version |-> V5_0, path |-> NoPath, platform_install |-> OptBuild],
    [version |-> V5_0, path |-> NoPath, platform_install |-> << >>] }

\* platforms of the project of these entries
ProjectPlatforms == platforms_of(default_dir(V5_0))

\* the directories that may lie under platforms: every combination for
\* this host, and one built on another system
BuildDirs ==
    {Append(ProjectPlatforms, bdir_name(ostype, product(i)[1], product(i)[2],
                                        product(i)[3], product(i)[4])) :
        i \in 1..n_products}
    \cup {Append(ProjectPlatforms, bdir_name("darwin", "64", "DP", "Opt", "g++"))}

\* the subsets of S with at most k elements
RECURSIVE SubsetsUpTo(_, _)
SubsetsUpTo(S, k) ==
    IF k = 0 THEN {{}}
    ELSE SubsetsUpTo(S, k - 1)
         \cup {s \cup {x} : s \in SubsetsUpTo(S, k - 1), x \in S}

\* the build directories among the paths
BuildsIn(fs) == fs \cap BuildDirs

----------------------------------------------------------------------------
(* Operations on the build directory                                       *)

\* the installation found on disk: platforms with some build directories,
\* an empty platforms, or none; the directory outside may be there or not
InitBuild ==
    /\ \E builds \in SubsetsUpTo(BuildDirs, MaxBuilds), plat \in BOOLEAN,
          opt \in SUBSET {OptBuild} :
            /\ builds # {} => plat
            /\ platform_fs = builds \cup (IF plat THEN {ProjectPlatforms} ELSE {})
                                    \cup opt
    /\ cmlenv = [made |-> FALSE]
    /\ access = [op |-> "none"]
    /\ DictIdle
    /\ EnvIdle

\* cenv = CMLEnv(cfg)
NewCMLEnv(cfg) ==
    /\ ~cmlenv.made
    /\ cmlenv' = [made |-> TRUE, cfg |-> cfg, version |-> CMLEnv(cfg).version,
                  project_dir |-> CMLEnv(cfg).project_dir,
                  build_dir |-> init_build_dir(cfg, platform_fs),
                  seen |-> platform_fs]
    /\ UNCHANGED <<platform_fs, access, dictvars, envvars>>

\* cenv.build_dir
BuildDir ==
    /\ cmlenv.made
    /\ access' = IF build_dir_raises(cmlenv, platform_fs)
                 THEN [op |-> "build_dir", exc |-> "IOError", value |-> << >>]
                 ELSE [op |-> "build_dir", exc |-> "none",
                       value |-> cmlenv.build_dir]
    /\ UNCHANGED <<platform_fs, cmlenv, dictvars, envvars>>

\* a build directory is added once the object exists
Install(d) ==
    /\ cmlenv.made
    /\ platform_fs = cmlenv.seen
    /\ ProjectPlatforms \in platform_fs
    /\ d \notin platform_fs
    /\ Cardinality(BuildsIn(platform_fs)) < MaxBuilds
    /\ platform_fs' = platform_fs \cup {d}
    /\ access' = [op |-> "none"]
    /\ UNCHANGED <<cmlenv, dictvars, envvars>>

\* the directory the object points to is removed
Vanish ==
    /\ cmlenv.made
    /\ cmlenv.build_dir \in platform_fs
    /\ platform_fs' = platform_fs \ {cmlenv.build_dir}
    /\ access' = [op |-> "none"]
    /\ UNCHANGED <<cmlenv, dictvars, envvars>>

NextBuild ==
    \/ \E cfg \in BuildCfgs : NewCMLEnv(cfg)
    \/ BuildDir
    \/ \E d \in BuildDirs : Install(d)
    \/ Vanish

\* one CMLEnv object and the directories around it
SpecBuild == InitBuild /\ [][NextBuild]_vars

----------------------------------------------------------------------------
(* Properties of the dictionary files                                      *)

\* the allowed values of the field the last generated-setter call was for
LastOpts == PropOf(cls, ret.name).opts

\* C1: for a field that declares allowed values, the generated setter called
\* with a value in the set (Python's "in") succeeds and the getter then
\* returns that value; called with a value outside the set it raises
\* ValueError and leaves the whole of data as it was.
C1_SetterValidates ==
    (ret.op = "setter" /\ LastOpts # << >>) =>
        IF PyIn(ret.value, LastOpts)
        THEN ret.exc = "none" /\ getter(data, ret.name) = ret.value
        ELSE ret.exc = "ValueError" /\ data = ret.pre

\* a setter call has refused a value outside the allowed set of a field that
\* held a value
C1_Witness ==
    /\ ret.op = "setter"
    /\ ret.exc = "ValueError"
    /\ ret.name \in DOMAIN data
    /\ ~PyIn(ret.value, LastOpts)

\* the last call was a load that parsed the file
LoadParsed ==
    /\ ret.op = "load"
    /\ ret.exc = "none"
    /\ ret.file.size <= size_limit

\* C5 as stated: a load of an existing file within the size limit always
\* yields a header: the FoamFile block when the parsed content has one (and
\* FoamFile is then no key of data), else a fresh default header built from
\* the filename, never null; data is the remaining top-level entries.
C5_AsStated ==
    LoadParsed =>
        /\ header # PyNone
        /\ "FoamFile" \in DOMAIN ret.file.parsed =>
              (header = ret.file.parsed["FoamFile"] /\ "FoamFile" \notin DOMAIN data)
        /\ "FoamFile" \notin DOMAIN ret.file.parsed =>
              header = create_header(filename)
        /\ data = PopItem(ret.file.parsed, "FoamFile")

\* C5 amended: a load of an existing file within the size limit yields as
\* header the FoamFile block when the parsed content has a non-empty one, and
\* null when FoamFile is absent or empty; FoamFile is no key of data, and data
\* is the remaining top-level entries.
C5_LoadHeader ==
    LoadParsed =>
        /\ header = IF Truthy(GetItem(ret.file.parsed, "FoamFile"))
                    THEN ret.file.parsed["FoamFile"] ELSE PyNone
        /\ "FoamFile" \notin DOMAIN data
        /\ data = PopItem(ret.file.parsed, "FoamFile")

\* a file without FoamFile has been loaded, and the object has no header
C5_Witness ==
    /\ LoadParsed
    /\ "FoamFile" \notin DOMAIN ret.file.parsed
    /\ DOMAIN ret.file.parsed # {}
    /\ header = PyNone

\* C6: on RASProperties / LESProperties, after each assignment of a string
\* to model, data has the block m + "Coeffs" of every model m assigned so
\* far; the block is empty when the assignment created it; and every entry
\* that existed before the assignment, other than the model entry itself, is
\* still there with the value it had.
C6_CoeffsKept ==
    /\ \A m \in assigned : (m \o "Coeffs") \in DOMAIN data
    /\ (ret.op = "model" /\ ret.exc = "none") =>
          /\ (ret.value.s \o "Coeffs") \notin DOMAIN ret.pre =>
                data[ret.value.s \o "Coeffs"] = CaelusDict(<< >>)
          /\ \A k \in DOMAIN ret.pre :
                k # model_name => (k \in DOMAIN data /\ data[k] = ret.pre[k])

\* kOmegaSST, then kEpsilon, has been assigned and both blocks are there
C6_Witness ==
    /\ ret.op = "model"
    /\ ret.value = PyStr("kEpsilon")
    /\ GetItem(ret.pre, model_name) = PyStr("kOmegaSST")
    /\ assigned = {"kOmegaSST", "kEpsilon"}
    /\ {"kOmegaSSTCoeffs", "kEpsilonCoeffs"} \subseteq DOMAIN data

\* the blocks with entries among the keys of d that are not keys of pre
Populated(d, pre) ==
    {k \in (DOMAIN d) \ (DOMAIN pre) : d[k].t = "dict" /\ d[k].d # << >>}

\* C7: on LESProperties, a freshly constructed instance with defaults has
\* delta = "cubeRootVol" and cubeRootVolCoeffs = {deltaCoeff: 1}; assigning a
\* delta other than "cubeRootVol" whose block does not exist creates the
\* block empty; and no constructor, default population or assignment creates
\* a block with entries other than cubeRootVolCoeffs.
C7_DeltaCoeffs ==
    cls = "LESProperties" =>
        /\ (ret.op = "init" /\ ret.populate_defaults) =>
              /\ getter(data, "delta") = PyStr("cubeRootVol")
              /\ GetItem(data, "cubeRootVolCoeffs")
                    = CaelusDict([deltaCoeff |-> PyInt(1)])
              /\ Populated(data, << >>) = {"cubeRootVolCoeffs"}
        /\ (ret.op = "delta" /\ ret.value # PyStr("cubeRootVol")
                /\ (ret.value.s \o "Coeffs") \notin DOMAIN ret.pre) =>
              data[ret.value.s \o "Coeffs"] = CaelusDict(<< >>)
        /\ ret.op \in {"delta", "model", "setter", "create_default_entries"} =>
              /\ Populated(data, ret.pre) \subseteq {"cubeRootVolCoeffs"}
              /\ \A k \in Populated(data, ret.pre) :
                    data[k] = CaelusDict([deltaCoeff |-> PyInt(1)])

\* delta = "vanDriest" has been assigned on an instance built with defaults
C7_Witness ==
    /\ cls = "LESProperties"
    /\ ret.op = "delta"
    /\ ret.value = PyStr("vanDriest")
    /\ "vanDriestCoeffs" \notin DOMAIN ret.pre
    /\ data["vanDriestCoeffs"] = CaelusDict(<< >>)
    /\ GetItem(data, "cubeRootVolCoeffs") = CaelusDict([deltaCoeff |-> PyInt(1)])

\* C8: after read_if_present (file loaded, file absent, or load raising)
\* and after git_describe (command exiting with 0, with another status, or
\* not starting) the working directory is the one the call began in.
C8_CwdRestored ==
    ret.op \in {"read_if_present", "git_describe"} => cwd = ret.before

\* read_if_present has raised out of a case directory that was not the
\* working directory
C8_Witness ==
    /\ ret.op = "read_if_present"
    /\ ret.exc = "ParseError"
    /\ ret.inside # ret.before
    /\ cwd = ret.before

----------------------------------------------------------------------------
(* Properties of the version registry                                      *)

\* the number a run of digits denotes
RECURSIVE NumericValue(_)
NumericValue(ds) ==
    IF ds = << >> THEN 0
    ELSE 10 * NumericValue(SubSeq(ds, 1, Len(ds) - 1)) + DigitVal(ds[Len(ds)])

\* the numbers between the dots of a dotted version id
RECURSIVE Components(_)
Components(v) ==
    IF \A i \in 1..Len(v) : v[i] # "." THEN <<NumericValue(v)>>
    ELSE LET dot == CHOOSE i \in 1..Len(v) :
                        v[i] = "." /\ \A j \in 1..(i - 1) : v[j] # "."
         IN  <<NumericValue(SubSeq(v, 1, dot - 1))>>
             \o Components(SubSeq(v, dot + 1, Len(v)))

\* a is below b in component-wise numeric order: at the first place where
\* they differ a has the smaller number, or a has run out
NumericLess(a, b) ==
    LET ca == Components(a)
        cb == Components(b)
    IN  \E i \in 1..(Len(cb)) :
            /\ \A j \in 1..(i - 1) : j <= Len(ca) /\ ca[j] = cb[j]
            /\ (i > Len(ca) \/ ca[i] < cb[i])

Calls == {"cml_get_latest_version", "cml_get_version"}

\* the environment the last call returned is stored under a greatest key
ReturnedGreatest ==
    /\ last.exc = "none"
    /\ last.env.version \in DOMAIN cml_versions
    /\ cml_versions[last.env.version] = last.env
    /\ \A k \in DOMAIN cml_versions : ~NumericLess(last.env.version, k)

\* C2: when the registry is not empty, cml_get_latest_version returns the
\* environment stored under a key that no key exceeds in component-wise
\* numeric order, and the version of every stored environment is its key.
C2_LatestIsGreatest ==
    (last.op = "cml_get_latest_version" /\ DOMAIN cml_versions # {}) =>
        /\ ReturnedGreatest
        /\ \A k \in DOMAIN cml_versions : cml_versions[k].version = k

\* with 4.10, 5.0 and 42.0 registered the call has returned 42.0
C2_Witness ==
    /\ last.op = "cml_get_latest_version"
    /\ {V4_10, V5_0, V42_0} \subseteq DOMAIN cml_versions
    /\ last.env.version = V42_0

\* the id the last cml_get_version call looked up
EffectiveId == IF last.arg # NoVersion THEN last.arg ELSE cml_default

\* the outcome the claim gives a cml_get_version call
ResolveOutcome ==
    IF EffectiveId = LatestId
    THEN IF DOMAIN cml_versions = {} THEN last.exc = "RuntimeError"
         ELSE ReturnedGreatest
    ELSE IF EffectiveId \in DOMAIN cml_versions
         THEN last.exc = "none" /\ last.env = cml_versions[EffectiveId]
         ELSE last.exc = "KeyError"

C4_AsStated ==
    (last.op = "cml_get_latest_version" /\ DOMAIN cml_versions = {}) =>
        last.exc = "RuntimeError"

\* C9 as stated: an access runs the population of the registry exactly when
\* the registry is empty as the access begins.
C9_AsStated ==
    last.op \in Calls => (last.inits > 0 <=> last.empty_before)

\* C10 as stated: a population of the empty registry leaves one environment
\* for each configured entry whose directory exists, keyed by its version as
\* a string; when the list is empty, or no entry of it survives, it leaves
\* one for each version discover_versions finds.
C10_AsStated ==
    (last.op \in Calls /\ last.inits > 0 /\ last.empty_before) =>
        LET kept == filter_invalid_versions(last.opts, disk, 1)
        IN  /\ \A k \in DOMAIN cml_versions : cml_versions[k].version = k
            /\ DOMAIN cml_versions =
                  IF last.opts # << >> /\ kept # << >>
                  THEN {kept[i].version : i \in 1..Len(kept)}
                  ELSE {e.version : e \in discover_versions(disk)}

----------------------------------------------------------------------------
(* Properties of the build directory                                       *)

\* positions <<architecture, precision, optimization, compiler>> in the
\* four lists
Combos ==
    (1..Len(arch_types)) \X (1..Len(prec_types)) \X (1..Len(opt_types))
        \X (1..Len(compilers))

\* x is probed before y: architecture decides first, then precision, then
\* optimization, then compiler
Before(x, y) ==
    \E k \in 1..4 : x[k] < y[k] /\ \A j \in 1..(k - 1) : x[j] = y[j]

\* platforms/<os><arch><compiler><precision><opt> of a combination
ComboPath(x) ==
    Append(ProjectPlatforms,
           ostype \o arch_types[x[1]] \o compilers[x[4]] \o prec_types[x[2]]
                  \o opt_types[x[3]])

\* the combinations lying under platforms
Existing(fs) == {x \in Combos : ComboPath(x) \in fs}

\* the first of them in the nested order; << >> when there is none
FirstExisting(fs) ==
    IF Existing(fs) = {} THEN << >>
    ELSE ComboPath(CHOOSE x \in Existing(fs) :
                       \A y \in Existing(fs) \ {x} : Before(x, y))

\* the object holds the first existing combination of the directories it
\* was made over, an access reports that one only, and fails with IOError
\* when there was none
ResolvedByProbe ==
    /\ cmlenv.build_dir = FirstExisting(cmlenv.seen)
    /\ access.op = "build_dir" =>
         /\ access.exc = "none" => access.value = FirstExisting(cmlenv.seen)
         /\ Existing(cmlenv.seen) = {} => access.exc = "IOError"

\* C11 as the specification words it: every CMLEnv resolves its build
\* directory by the nested probe order (architecture, precision,
\* optimization, compiler) over the directories under platforms, and an
\* access fails when no combination exists.  An entry that configures
\* platform_install refutes it.
C11_AsStated == cmlenv.made => ResolvedByProbe

\* C11: a CMLEnv made of an entry without platform_install resolves its
\* build directory to platforms/<os><arch><compiler><precision><opt> of
\* the first existing combination in the nested order architecture,
\* precision, optimization, compiler; an access reports no other
\* combination, and raises IOError when no combination existed.
C11_ProbeOrder ==
    (cmlenv.made /\ "platform_install" \notin DOMAIN cmlenv.cfg)
        => ResolvedByProbe

\* two combinations exist of which precision, not the compiler, decides:
\* icpc with DP wins over g++ with SP, and the access returns it
C11_Witness ==
    /\ cmlenv.made
    /\ "platform_install" \notin DOMAIN cmlenv.cfg
    /\ BuildsIn(cmlenv.seen) = {Append(ProjectPlatforms, "linux64icpcDPOpt"),
                                Append(ProjectPlatforms, "linux64g++SPOpt")}
    /\ access.op = "build_dir"
    /\ access.exc = "none"
    /\ access.value = Append(ProjectPlatforms, "linux64icpcDPOpt")

====
